---------------------------- MODULE Spec2Model ----------------------------
(***************************************************************************)
(* A model of the Taily shard-scoring library (include/taily.hpp).         *)
(*                                                                         *)
(* The library is a set of pure functions over double and int64 values.    *)
(* A double is modelled as a pair <<n, d>>:                                *)
(*     d > 0, n # 0, gcd(|n|, d) = 1   the finite non-zero value n / d     *)
(*     <<0, 1>>, <<0, -1>>             +0.0 and -0.0                       *)
(*     <<1, 0>>, <<-1, 0>>             +infinity and -infinity             *)
(*     <<0, 0>>                        NaN                                 *)
(* Every operation follows IEEE-754 for the special values and signed      *)
(* zeros and is exact on finite values: binary64 rounding and exponent     *)
(* range are not modelled, so an equality of two finite results below is   *)
(* an equality of the exact values of the expressions the code evaluates.  *)
(* The exception is the section on any and all in rounded arithmetic,      *)
(* where every operation rounds to the nearest value of a binary format    *)
(* whose epsilon is that of the model.                                     *)
(*                                                                         *)
(* The gamma distribution of Boost.Math is a library outside the           *)
(* repository.  Its constructor and argument checks are modelled from      *)
(* their contract (a domain error is thrown for a shape or scale that is   *)
(* not positive and finite, for a probability outside [0, 1] and for a     *)
(* negative or non-finite random variable); the values of the regularised  *)
(* incomplete gamma function and of its inverse are left open: the state   *)
(* holds the part of the two function graphs that a call has evaluated,    *)
(* any value within the contract being possible, the same arguments        *)
(* always giving the same value.                                           *)
(***************************************************************************)
EXTENDS Integers, Sequences, FiniteSets

---------------------------------------------------------------------------
(* Bounds of the model. *)

\* Longest shard list handed to score_shards.
MaxShards == 3

\* Largest ntop a caller passes (the smallest is -1).
MaxNtop == 2

\* Longest sequence of features handed to from_features.
MaxFeatures == 3

\* Largest number of records written to a statistics file.
MaxRecords == 2

\* Longest term_stats of the statistics handed to any, all, estimate_cutoff
\* and calculate_cdf.
MaxTerms == 2

---------------------------------------------------------------------------
(* double *)

Abs(i) == IF i < 0 THEN -i ELSE i

RECURSIVE GCD(_, _)
GCD(a, b) == IF b = 0 THEN a ELSE GCD(b, a % b)

NaN == <<0, 0>>
PosInf == <<1, 0>>
NegInf == <<-1, 0>>
PosZero == <<0, 1>>
NegZero == <<0, -1>>

IsNaN(x) == x[1] = 0 /\ x[2] = 0
IsInf(x) == x[1] # 0 /\ x[2] = 0
IsZero(x) == x[1] = 0 /\ x[2] # 0
IsFinite(x) == x[2] # 0

\* The sign bit: -1 when set.
SignBit(x) == IF x[1] < 0 \/ (x[1] = 0 /\ x[2] < 0) THEN -1 ELSE 1

Zero(s) == IF s < 0 THEN NegZero ELSE PosZero
Inf(s) == IF s < 0 THEN NegInf ELSE PosInf

\* The finite value n / d, d > 0, in lowest terms; an exact zero result is +0.0.
Mk(n, d) ==
    IF n = 0 THEN PosZero
    ELSE LET g == GCD(Abs(n), d) IN <<n \div g, d \div g>>

\* Numerator and denominator of a finite value (a zero is 0 / 1).
Num(x) == x[1]
Den(x) == IF x[1] = 0 THEN 1 ELSE x[2]

\* Conversion of an integer (int, std::int64_t) to double.
ToDouble(i) == IF i = 0 THEN PosZero ELSE <<i, 1>>

DNeg(x) ==
    IF IsNaN(x) THEN NaN
    ELSE IF IsZero(x) THEN Zero(-SignBit(x))
    ELSE <<-x[1], x[2]>>

DAdd(x, y) ==
    IF IsNaN(x) \/ IsNaN(y) THEN NaN
    ELSE IF IsInf(x) THEN (IF IsInf(y) /\ y # x THEN NaN ELSE x)
    ELSE IF IsInf(y) THEN y
    ELSE IF IsZero(x) /\ IsZero(y)
         THEN (IF x = NegZero /\ y = NegZero THEN NegZero ELSE PosZero)
    ELSE IF IsZero(x) THEN y
    ELSE IF IsZero(y) THEN x
    ELSE Mk(x[1] * y[2] + y[1] * x[2], x[2] * y[2])

DSub(x, y) == DAdd(x, DNeg(y))

DMul(x, y) ==
    IF IsNaN(x) \/ IsNaN(y) THEN NaN
    ELSE IF (IsInf(x) /\ IsZero(y)) \/ (IsZero(x) /\ IsInf(y)) THEN NaN
    ELSE IF IsInf(x) \/ IsInf(y) THEN Inf(SignBit(x) * SignBit(y))
    ELSE IF IsZero(x) \/ IsZero(y) THEN Zero(SignBit(x) * SignBit(y))
    ELSE Mk(x[1] * y[1], x[2] * y[2])

DDiv(x, y) ==
    IF IsNaN(x) \/ IsNaN(y) THEN NaN
    ELSE IF (IsInf(x) /\ IsInf(y)) \/ (IsZero(x) /\ IsZero(y)) THEN NaN
    ELSE IF IsInf(x) \/ IsZero(y) THEN Inf(SignBit(x) * SignBit(y))
    ELSE IF IsInf(y) \/ IsZero(x) THEN Zero(SignBit(x) * SignBit(y))
    ELSE Mk(SignBit(x) * SignBit(y) * Abs(x[1]) * y[2], x[2] * Abs(y[1]))

\* x < y; false when either is NaN; -0.0 and +0.0 compare equal.
DLt(x, y) ==
    IF IsNaN(x) \/ IsNaN(y) THEN FALSE
    ELSE IF IsInf(x) THEN x = NegInf /\ y # NegInf
    ELSE IF IsInf(y) THEN y = PosInf
    ELSE Num(x) * Den(y) < Num(y) * Den(x)

\* x == y; false when either is NaN; -0.0 == +0.0.
DEq(x, y) ==
    IF IsNaN(x) \/ IsNaN(y) THEN FALSE
    ELSE (IsZero(x) /\ IsZero(y)) \/ x = y

DLe(x, y) == DLt(x, y) \/ DEq(x, y)
DGt(x, y) == DLt(y, x)

\* std::min(a, b) is (b < a) ? b : a and std::max(a, b) is (a < b) ? b : a.
StdMin(a, b) == IF DLt(b, a) THEN b ELSE a
StdMax(a, b) == IF DLt(a, b) THEN b ELSE a

One == ToDouble(1)

\* std::pow(x, 2.0)
PowTwo(x) == DMul(x, x)

---------------------------------------------------------------------------
(* Feature_Statistics and Query_Statistics *)

\* Feature_Statistics{expected_value, variance, frequency}
FS(e, v, f) == [expected_value |-> e, variance |-> v, frequency |-> f]

\* Query_Statistics{term_stats, collection_size}
QS(ts, n) == [term_stats |-> ts, collection_size |-> n]

\* Feature_Statistics::operator+
Plus(a, b) ==
    FS(DAdd(a.expected_value, b.expected_value),
       DAdd(a.variance, b.variance),
       a.frequency + b.frequency)

\* std::accumulate(term_stats.begin(), term_stats.end(), Feature_Statistics{0, 0, 0}):
\* the left fold of operator+ from the zero element over the first k terms.
RECURSIVE AccumulateStats(_, _)
AccumulateStats(term_stats, k) ==
    IF k = 0 THEN FS(PosZero, PosZero, 0)
    ELSE Plus(AccumulateStats(term_stats, k - 1), term_stats[k])

SumStats(term_stats) == AccumulateStats(term_stats, Len(term_stats))

---------------------------------------------------------------------------
(* Outcomes of a call.  A call returns a value or throws; trace lists, in   *)
(* order, the callees it invoked and the divisions it performed.           *)

Return(v, t) == [threw |-> FALSE, ret |-> v, trace |-> t]
Throw(t) == [threw |-> TRUE, trace |-> t]

\* A call that has reached an evaluation of a library function at args, whose
\* value it returns.
Eval(args, t) == [threw |-> FALSE, eval |-> args, trace |-> t]
Pending(r) == "eval" \in DOMAIN r

\* The outcome of r when the library function has the graph g.
Resolve(r, g) == IF Pending(r) THEN Return(g[r.eval], r.trace) ELSE r

\* The arguments at which r evaluates the library function.
Args(r) == IF Pending(r) THEN {r.eval} ELSE {}

\* n copies of the event e.
Repeat(e, n) == [i \in 1..n |-> e]

---------------------------------------------------------------------------
(* Feature_Statistics::from_features *)

\* std::accumulate(first, last, 0.0, accumulate_feature) over the first k
\* features; the lambda also counts them.
RECURSIVE AccumulateFeature(_, _)
AccumulateFeature(features, k) ==
    IF k = 0 THEN PosZero
    ELSE DAdd(AccumulateFeature(features, k - 1), features[k])

\* std::accumulate(first, last, 0.0, accumulate_squared) over the first k
\* features.
RECURSIVE AccumulateSquared(_, _, _)
AccumulateSquared(features, k, expected_value) ==
    IF k = 0 THEN PosZero
    ELSE DAdd(AccumulateSquared(features, k - 1, expected_value),
              PowTwo(DSub(expected_value, features[k])))

\* from_features once expected_value has been computed.
FromFeaturesMean(features, count, expected_value) ==
    Return(FS(expected_value,
              DDiv(AccumulateSquared(features, count, expected_value),
                   ToDouble(count)),
              count),
           <<"sum / count", "squares / count">>)

\* A variant of from_features that divides the squares by count - 1.
FromFeaturesSample(features) ==
    IF Len(features) = 0 THEN Return(FS(PosZero, PosZero, 0), <<>>)
    ELSE LET count == Len(features)
             expected_value == DDiv(AccumulateFeature(features, count),
                                    ToDouble(count))
         IN  Return(FS(expected_value,
                       DDiv(AccumulateSquared(features, count, expected_value),
                            ToDouble(count - 1)),
                       count),
                    <<"sum / count", "squares / count">>)

\* from_features(first, last); the range overload delegates to it.
FromFeatures(features) ==
    IF Len(features) = 0 THEN Return(FS(PosZero, PosZero, 0), <<>>)
    ELSE FromFeaturesMean(features, Len(features),
                          DDiv(AccumulateFeature(features, Len(features)),
                               ToDouble(Len(features))))

---------------------------------------------------------------------------
(* The object representation of double and std::int64_t, and streams.      *)
(* A double is an IEEE-754 binary64 word and an int64 a two's complement    *)
(* word, both stored least significant byte first.  Only values with a     *)
(* binary64 representation (dyadic rationals, zeros, infinities, the quiet  *)
(* NaN) are written to streams.                                             *)

\* Feature_Statistics::struct_size
StructSize == 24

\* n / d > 0 scaled by a power of two into [1, 2): <<n', d', e>> with
\* n / d = (n' / d') * 2^e.
RECURSIVE Normalised(_, _, _)
Normalised(n, d, e) ==
    IF n >= 2 * d THEN Normalised(n, 2 * d, e + 1)
    ELSE IF n < d THEN Normalised(2 * n, d, e - 1)
    ELSE <<n, d, e>>

\* The first count digits in base 256 of n / d in [0, 1), most significant
\* first.
RECURSIVE FractionBytes(_, _, _)
FractionBytes(n, d, count) ==
    IF count = 0 THEN <<>>
    ELSE <<(n * 256) \div d>> \o FractionBytes((n * 256) % d, d, count - 1)

Reverse(s) == [i \in 1..Len(s) |-> s[Len(s) + 1 - i]]

\* The eight bytes of the word with the given sign bit, biased exponent and
\* 52-bit fraction n / d.
WordBytes(sign, exponent, n, d) ==
    Reverse(FractionBytes((n * 16) % d, d, 6))
        \o <<(exponent % 16) * 16 + (n * 16) \div d,
             sign * 128 + exponent \div 16>>

\* The bytes of a finite non-zero double, from its normalised magnitude.
NormalBytes(sign, m) == WordBytes(sign, m[3] + 1023, m[1] - m[2], m[2])

\* The bytes of a double.
DoubleBytes(x) ==
    IF IsNaN(x) THEN WordBytes(0, 2047, 1, 2)
    ELSE IF IsInf(x) THEN WordBytes(IF x[1] < 0 THEN 1 ELSE 0, 2047, 0, 1)
    ELSE IF IsZero(x) THEN WordBytes(IF x[2] < 0 THEN 1 ELSE 0, 0, 0, 1)
    ELSE NormalBytes(IF x[1] < 0 THEN 1 ELSE 0, Normalised(Abs(x[1]), x[2], 0))

\* The value of the k low fraction bytes of a word, as a fraction of 256^k.
RECURSIVE LowFraction(_, _)
LowFraction(bytes, k) ==
    IF k = 0 THEN PosZero
    ELSE DDiv(DAdd(ToDouble(bytes[k]), LowFraction(bytes, k - 1)), ToDouble(256))

\* x * 2^e
RECURSIVE Scale(_, _)
Scale(x, e) ==
    IF e = 0 THEN x
    ELSE IF e > 0 THEN Scale(DMul(x, ToDouble(2)), e - 1)
    ELSE Scale(DDiv(x, ToDouble(2)), e + 1)

\* The double whose word has the given sign bit, biased exponent and
\* fraction.
WordDouble(sign, exponent, fraction) ==
    IF exponent = 2047
    THEN (IF IsZero(fraction) THEN Inf(IF sign = 1 THEN -1 ELSE 1) ELSE NaN)
    ELSE IF exponent = 0 /\ IsZero(fraction)
    THEN Zero(IF sign = 1 THEN -1 ELSE 1)
    ELSE Scale(DMul(ToDouble(IF sign = 1 THEN -1 ELSE 1), DAdd(One, fraction)),
               exponent - 1023)

\* The double of eight bytes.
BytesDouble(bytes) ==
    WordDouble(bytes[8] \div 128,
               (bytes[8] % 128) * 16 + bytes[7] \div 16,
               DDiv(DAdd(ToDouble(bytes[7] % 16), LowFraction(bytes, 6)),
                    ToDouble(16)))

\* The count low bytes of the two's complement word of i.
RECURSIVE Int64Bytes(_, _)
Int64Bytes(i, count) ==
    IF count = 0 THEN <<>>
    ELSE <<i % 256>> \o Int64Bytes(i \div 256, count - 1)

\* The integer of the bytes k..8 of a two's complement word.
RECURSIVE BytesInt64(_, _)
BytesInt64(bytes, k) ==
    IF k = 8 THEN (IF bytes[8] >= 128 THEN bytes[8] - 256 ELSE bytes[8])
    ELSE BytesInt64(bytes, k + 1) * 256 + bytes[k]

\* Feature_Statistics::to_stream: three writes to the end of os.
ToStream(os, stats) ==
    os \o DoubleBytes(stats.expected_value)
       \o DoubleBytes(stats.variance)
       \o Int64Bytes(stats.frequency, 8)

\* std::ifstream ifs(file)
IStream(bytes) == [bytes |-> bytes, pos |-> 0, fail |-> FALSE]

\* ifs.seekg(pos): no effect on a stream that has failed.
Seekg(is, pos) == IF is.fail \/ pos < 0 THEN [is EXCEPT !.fail = TRUE]
                  ELSE [is EXCEPT !.pos = pos]

\* The stream after is.read(_, count): the read fails on a failed stream and
\* when fewer than count bytes are left.
ReadOk(is, count) == ~is.fail /\ is.pos + count <= Len(is.bytes)
AfterRead(is, count) ==
    IF ReadOk(is, count) THEN [is EXCEPT !.pos = is.pos + count]
    ELSE [is EXCEPT !.fail = TRUE, !.pos = Len(is.bytes)]
ReadBytes(is, count) == SubSeq(is.bytes, is.pos + 1, is.pos + count)

\* Feature_Statistics::from_stream: three reads into an uninitialised
\* Feature_Statistics; a field whose read fails keeps an indeterminate value,
\* that of garbage.
FromStreamFields(is1, is2, is3, garbage) ==
    FS(IF ReadOk(is1, 8) THEN BytesDouble(ReadBytes(is1, 8))
       ELSE garbage.expected_value,
       IF ReadOk(is2, 8) THEN BytesDouble(ReadBytes(is2, 8))
       ELSE garbage.variance,
       IF ReadOk(is3, 8) THEN BytesInt64(ReadBytes(is3, 8), 1)
       ELSE garbage.frequency)

\* A variant of from_stream that reads the variance before the expected
\* value.
FromStreamSwapped(is, garbage) ==
    [is |-> AfterRead(AfterRead(AfterRead(is, 8), 8), 8),
     stats |-> FromStreamFields(AfterRead(is, 8), is,
                                AfterRead(AfterRead(is, 8), 8), garbage)]

FromStream(is, garbage) ==
    [is |-> AfterRead(AfterRead(AfterRead(is, 8), 8), 8),
     stats |-> FromStreamFields(is, AfterRead(is, 8),
                                AfterRead(AfterRead(is, 8), 8), garbage)]

\* read_stats after the first k terms: the stream and the statistics read.
RECURSIVE ReadStatsLoop(_, _, _, _)
ReadStatsNext(loop, term, garbage) ==
    [is |-> FromStream(Seekg(loop.is, term * StructSize), garbage).is,
     stats |-> Append(loop.stats,
                      FromStream(Seekg(loop.is, term * StructSize), garbage).stats)]
ReadStatsLoop(terms, k, file, garbage) ==
    IF k = 0 THEN [is |-> IStream(file), stats |-> <<>>]
    ELSE ReadStatsNext(ReadStatsLoop(terms, k - 1, file, garbage), terms[k], garbage)

\* read_stats(terms, file)
ReadStats(terms, file, garbage) == ReadStatsLoop(terms, Len(terms), file, garbage).stats

---------------------------------------------------------------------------
(* any, all *)

\* A variant of the fold of any() that keeps only the last term, as in the
\* first revision.
AnyProductLastTerm(term_stats, k, collection_size) ==
    IF k = 0 THEN One
    ELSE DSub(One, DDiv(ToDouble(term_stats[k].frequency),
                        ToDouble(collection_size)))

\* The fold of any() over the first k terms, from 1.0:
\* acc * (1.0 - double(stats.frequency) / collection_size).
RECURSIVE AnyProduct(_, _, _)
AnyProduct(term_stats, k, collection_size) ==
    IF k = 0 THEN One
    ELSE DMul(AnyProduct(term_stats, k - 1, collection_size),
              DSub(One, DDiv(ToDouble(term_stats[k].frequency),
                             ToDouble(collection_size))))

\* A variant of any() that adds the frequencies up.
AnySum(stats) == ToDouble(SumStats(stats.term_stats).frequency)

Any(stats) ==
    LET collection_size == stats.collection_size
        any_product == AnyProduct(stats.term_stats, Len(stats.term_stats),
                                  collection_size)
    IN  DMul(ToDouble(collection_size), DSub(One, any_product))

\* The fold of all() over the first k terms, from 1.0:
\* acc * (stats.frequency / any).
RECURSIVE AllProduct(_, _, _)
AllProduct(term_stats, k, any) ==
    IF k = 0 THEN One
    ELSE DMul(AllProduct(term_stats, k - 1, any),
              DDiv(ToDouble(term_stats[k].frequency), any))

\* Variants of all(), against which its properties are compared: the one of
\* the first revision, whose fold keeps only the last term and which does not
\* test any; and the present fold without the test of any.
AllCallLastTerm(stats) ==
    LET any == Any(stats)
        n == Len(stats.term_stats)
    IN  Return(DMul(any, IF n = 0 THEN One
                         ELSE DDiv(ToDouble(stats.term_stats[n].frequency), any)),
               <<"any">> \o Repeat("frequency / any", n))

AllCallUnguarded(stats) ==
    LET any == Any(stats) IN
    Return(DMul(any, AllProduct(stats.term_stats, Len(stats.term_stats), any)),
           <<"any">> \o Repeat("frequency / any", Len(stats.term_stats)))

\* A variant of all() that divides the frequencies by collection_size
\* instead of any.
AllFromAnyBySize(stats, any) ==
    IF DEq(any, PosZero)
    THEN Return(PosZero, <<"any">>)
    ELSE Return(DMul(any, AllProduct(stats.term_stats, Len(stats.term_stats),
                                     ToDouble(stats.collection_size))),
                <<"any">> \o Repeat("frequency / any", Len(stats.term_stats)))

\* all() once any has been computed.
AllFromAny(stats, any) ==
    IF DEq(any, PosZero)
    THEN Return(PosZero, <<"any">>)
    ELSE Return(DMul(any, AllProduct(stats.term_stats, Len(stats.term_stats), any)),
                <<"any">> \o Repeat("frequency / any", Len(stats.term_stats)))

AllCall(stats) == AllFromAny(stats, Any(stats))

All(stats) == AllCall(stats).ret

---------------------------------------------------------------------------
(* fit_distribution and the gamma distribution *)

\* The denominator of std::numeric_limits<double>::epsilon(), which is 2^-52;
\* scaled down to the magnitudes of the model's inputs.
EpsilonDenominator == 64

Epsilon == <<1, EpsilonDenominator>>

\* A variant of the constructor that accepts every shape and scale, as under
\* an error policy that ignores domain errors.
GammaDistributionUnchecked(shape, scale) ==
    [threw |-> FALSE, shape |-> shape, scale |-> scale]

\* boost::math::gamma_distribution<>(shape, scale): the constructor throws a
\* domain error unless shape and scale are both positive and finite.
GammaDistribution(shape, scale) ==
    IF /\ IsFinite(shape) /\ DGt(shape, PosZero)
       /\ IsFinite(scale) /\ DGt(scale, PosZero)
    THEN [threw |-> FALSE, shape |-> shape, scale |-> scale]
    ELSE [threw |-> TRUE]

\* A variant of fit_distribution that replaces only a variance <= 0.
FitDistributionNonPositive(query_term_stats) ==
    LET epsilon == Epsilon
        variance == IF DLe(query_term_stats.variance, PosZero) THEN epsilon
                    ELSE query_term_stats.variance
        k == DDiv(PowTwo(query_term_stats.expected_value), variance)
        theta == DDiv(variance, query_term_stats.expected_value)
    IN  GammaDistribution(k, theta)

FitDistribution(query_term_stats) ==
    LET epsilon == Epsilon
        variance == StdMax(epsilon, query_term_stats.variance)
        k == DDiv(PowTwo(query_term_stats.expected_value), variance)
        theta == DDiv(variance, query_term_stats.expected_value)
    IN  GammaDistribution(k, theta)

\* A variant of the vector overload that fits the last term only.
FitDistributionLastTerm(term_stats) ==
    FitDistribution(IF term_stats = <<>> THEN FS(PosZero, PosZero, 0)
                    ELSE term_stats[Len(term_stats)])

FitDistributionVector(term_stats) == FitDistribution(SumStats(term_stats))

\* boost::math::quantile(complement(dist, q)): a domain error for q outside
\* [0, 1], an overflow error for q = 0, 0 for q = 1, and otherwise the value
\* of the inverse of the regularised upper incomplete gamma function.
QuantileComplement(dist, q, t) ==
    IF ~(DLe(PosZero, q) /\ DLe(q, One)) THEN Throw(t)
    ELSE IF DEq(q, PosZero) THEN Throw(t)
    ELSE IF DEq(q, One) THEN Return(PosZero, t)
    ELSE Eval(<<dist.shape, dist.scale, q>>, t)

\* boost::math::cdf(complement(dist, x)): a domain error for a negative or
\* non-finite x, and otherwise the value of the regularised upper incomplete
\* gamma function.
CdfComplement(dist, x, t) ==
    IF ~(IsFinite(x) /\ DLe(PosZero, x)) THEN Throw(t)
    ELSE Eval(<<dist.shape, dist.scale, x>>, t)

---------------------------------------------------------------------------
(* estimate_cutoff, calculate_cdf *)

\* estimate_cutoff once dist has been fitted.
EstimateCutoffFitted(dist, stats, ntop) ==
    IF dist.threw THEN Throw(<<"fit_distribution">>)
    ELSE QuantileComplement(dist, StdMin(One, DDiv(ToDouble(ntop), All(stats))),
             <<"fit_distribution", "all", "ntop / all", "quantile">>)

\* A variant of estimate_cutoff without the test for empty term_stats, as in
\* the first revision.
EstimateCutoffUnchecked(stats, ntop) ==
    EstimateCutoffFitted(FitDistributionVector(stats.term_stats), stats, ntop)

\* estimate_cutoff up to the evaluation of the inverse incomplete gamma
\* function.
EstimateCutoffSteps(stats, ntop) ==
    IF Len(stats.term_stats) = 0
    THEN Return(PosZero, <<>>)
    ELSE EstimateCutoffFitted(FitDistributionVector(stats.term_stats), stats, ntop)

\* estimate_cutoff, the inverse incomplete gamma function being gqi.
EstimateCutoff(stats, ntop, gqi) == Resolve(EstimateCutoffSteps(stats, ntop), gqi)

\* calculate_cdf once dist has been fitted.
CalculateCdfFitted(cutoff, dist) ==
    IF dist.threw THEN Throw(<<"accumulate", "fit_distribution">>)
    ELSE CdfComplement(dist, cutoff, <<"accumulate", "fit_distribution", "cdf">>)

\* A variant of calculate_cdf that fits the distribution whatever the
\* accumulated statistics are.
CalculateCdfAccumulatedUnchecked(cutoff, query_stats) ==
    CalculateCdfFitted(cutoff, FitDistribution(query_stats))

\* calculate_cdf once query_stats has been accumulated.
CalculateCdfAccumulated(cutoff, query_stats) ==
    IF \/ DEq(query_stats.expected_value, PosZero)
       \/ DEq(query_stats.variance, PosZero)
    THEN Return(PosZero, <<"accumulate">>)
    ELSE CalculateCdfFitted(cutoff, FitDistribution(query_stats))

\* A variant of calculate_cdf without the test of the cutoff, as in the first
\* revision.
CalculateCdfUnchecked(cutoff, stats) ==
    CalculateCdfAccumulated(cutoff, SumStats(stats.term_stats))

\* calculate_cdf up to the evaluation of the incomplete gamma function.
CalculateCdfSteps(cutoff, stats) ==
    IF DLe(cutoff, PosZero)
    THEN Return(One, <<>>)
    ELSE CalculateCdfAccumulated(cutoff, SumStats(stats.term_stats))

\* calculate_cdf, the incomplete gamma function being gq.
CalculateCdf(cutoff, stats, gq) == Resolve(CalculateCdfSteps(cutoff, stats), gq)

---------------------------------------------------------------------------
(* score_shards *)

\* Variants of the normalize lambda, against which the properties of
\* score_shards are compared: the one of the first revision, which does not
\* scale by ntop; one that divides whatever the normalization factor is; one
\* that tests the factor against 0 with != instead of >.
NormalizeUnscaled(element, ntop, normalization_factor) ==
    IF DGt(normalization_factor, PosZero)
    THEN Return(DDiv(element, normalization_factor), <<"/ normalization_factor">>)
    ELSE Return(PosZero, <<>>)

NormalizeUnguarded(element, ntop, normalization_factor) ==
    Return(DDiv(DMul(element, ToDouble(ntop)), normalization_factor),
           <<"/ normalization_factor">>)

NormalizeNonZero(element, ntop, normalization_factor) ==
    IF ~DEq(normalization_factor, PosZero)
    THEN Return(DDiv(DMul(element, ToDouble(ntop)), normalization_factor),
                <<"/ normalization_factor">>)
    ELSE Return(PosZero, <<>>)

\* The normalize lambda of score_shards.
Normalize(element, ntop, normalization_factor) ==
    IF DGt(normalization_factor, PosZero)
    THEN Return(DDiv(DMul(element, ToDouble(ntop)), normalization_factor),
                <<"/ normalization_factor">>)
    ELSE Return(PosZero, <<>>)

\* The events of the first k of a sequence of calls, in order.
RECURSIVE Traces(_, _)
Traces(calls, k) ==
    IF k = 0 THEN <<>> ELSE Traces(calls, k - 1) \o calls[k].trace

\* A variant of std::accumulate(begin, end, 0.0) that leaves out the first
\* element.
RECURSIVE AccumulateSumTail(_, _)
AccumulateSumTail(coefs, k) ==
    IF k <= 1 THEN PosZero
    ELSE DAdd(AccumulateSumTail(coefs, k - 1), coefs[k])

\* std::accumulate(begin, end, 0.0): the left-to-right sum of the first k
\* coefficients.
RECURSIVE AccumulateSum(_, _)
AccumulateSum(coefs, k) ==
    IF k = 0 THEN PosZero
    ELSE DAdd(AccumulateSum(coefs, k - 1), coefs[k])

\* The number of calculate_cdf calls the transform makes: a call that throws
\* ends it.
CdfCalls(cdfs) ==
    IF \E i \in 1..Len(cdfs) : cdfs[i].threw
    THEN CHOOSE i \in 1..Len(cdfs) :
             cdfs[i].threw /\ \A j \in 1..(i - 1) : ~cdfs[j].threw
    ELSE Len(cdfs)

\* std::transform(shard_stats, shard_coefs, bind(calculate_cdf, global_cutoff, _1)):
\* the outcomes of the calls made.
TransformCdf(global_cutoff, shard_stats, gq) ==
    [i \in 1..CdfCalls([j \in 1..Len(shard_stats) |->
                           CalculateCdfSteps(global_cutoff, shard_stats[j])])
        |-> CalculateCdf(global_cutoff, shard_stats[i], gq)]

\* A variant of the multiplication that pairs cdf i with the all-estimate of
\* the shard at the mirrored position.
TransformMultipliesMirrored(cdfs, shard_all) ==
    [i \in 1..Len(cdfs) |-> DMul(cdfs[i].ret, shard_all[Len(cdfs) + 1 - i])]

\* std::transform(shard_coefs, shard_all, shard_coefs, std::multiplies<double>())
TransformMultiplies(cdfs, shard_all) ==
    [i \in 1..Len(cdfs) |-> DMul(cdfs[i].ret, shard_all[i])]

\* std::transform(shard_stats, shard_all, taily::all)
TransformAll(shard_stats) ==
    [i \in 1..Len(shard_stats) |-> All(shard_stats[i])]

\* score_shards from the normalization on.
ScoreShardsNormalize(shard_coefs, ntop, normalization_factor, t) ==
    LET estimates == [i \in 1..Len(shard_coefs) |->
            Normalize(shard_coefs[i], ntop, normalization_factor)]
    IN  Return([i \in 1..Len(shard_coefs) |-> estimates[i].ret],
               t \o Traces(estimates, Len(shard_coefs)))

\* score_shards from the accumulation of the normalization factor on.
ScoreShardsAccumulate(shard_coefs, ntop, t) ==
    ScoreShardsNormalize(shard_coefs, ntop,
                         AccumulateSum(shard_coefs, Len(shard_coefs)), t)

\* score_shards from the multiplication on; an exception of calculate_cdf
\* leaves score_shards.
ScoreShardsMultiply(cdfs, shard_all, ntop, t) ==
    IF \E i \in 1..Len(cdfs) : cdfs[i].threw
    THEN Throw(t \o Repeat("calculate_cdf", CdfCalls(cdfs)))
    ELSE ScoreShardsAccumulate(TransformMultiplies(cdfs, shard_all), ntop,
                               t \o Repeat("calculate_cdf", Len(cdfs)))

\* A variant of score_shards that answers a failure of estimate_cutoff with
\* an empty vector.
ScoreShardsCdfSwallowing(global_cutoff, shard_stats, shard_all, ntop, gq, t) ==
    IF global_cutoff.threw THEN Return(<<>>, t)
    ELSE ScoreShardsMultiply(TransformCdf(global_cutoff.ret, shard_stats, gq),
                             shard_all, ntop, t)

\* score_shards from the calculate_cdf calls on; an exception of
\* estimate_cutoff leaves score_shards.
ScoreShardsCdf(global_cutoff, shard_stats, shard_all, ntop, gq, t) ==
    IF global_cutoff.threw THEN Throw(t)
    ELSE ScoreShardsMultiply(TransformCdf(global_cutoff.ret, shard_stats, gq),
                             shard_all, ntop, t)

ScoreShards(global_stats, shard_stats, ntop, gqi, gq) ==
    ScoreShardsCdf(EstimateCutoff(global_stats, ntop, gqi), shard_stats,
                   TransformAll(shard_stats), ntop, gq,
                   Repeat("all", Len(shard_stats)) \o <<"all", "estimate_cutoff">>)

\* The arguments at which the calculate_cdf calls of score_shards evaluate the
\* incomplete gamma function.
CdfArgs(global_cutoff, shard_stats) ==
    IF global_cutoff.threw THEN {}
    ELSE LET steps == [i \in 1..Len(shard_stats) |->
                 CalculateCdfSteps(global_cutoff.ret, shard_stats[i])]
         IN  UNION {Args(steps[i]) : i \in 1..CdfCalls(steps)}

ScoreCdfArgs(global_stats, shard_stats, ntop, gqi) ==
    CdfArgs(EstimateCutoff(global_stats, ntop, gqi), shard_stats)

---------------------------------------------------------------------------
(* any and all in rounded arithmetic.  Every operation on doubles rounds    *)
(* its exact result to the nearest representable value, ties to even; the  *)
(* representable values next to 1 are epsilon apart.  Overflow and          *)
(* underflow do not occur for the values of the model.                     *)

\* The integer nearest to n / d >= 0, the even one of two equally near.
Nearest(n, d) ==
    IF 2 * (n % d) > d THEN n \div d + 1
    ELSE IF 2 * (n % d) = d THEN n \div d + ((n \div d) % 2)
    ELSE n \div d

\* The representable value nearest to sign * m[1] / m[2] * 2^m[3], where
\* m[1] / m[2] is in [1, 2).
RoundNormalised(sign, m, denominator) ==
    Scale(Mk(sign * Nearest(m[1] * denominator, m[2]), denominator), m[3])

\* The representable value nearest to x.
Round(x) ==
    IF ~IsFinite(x) \/ IsZero(x) THEN x
    ELSE RoundNormalised(IF x[1] < 0 THEN -1 ELSE 1,
                         Normalised(Abs(x[1]), x[2], 0), Den(Epsilon))

\* The fold of any() over the first k terms.
RECURSIVE AnyProductRounded(_, _, _)
AnyProductRounded(term_stats, k, collection_size) ==
    IF k = 0 THEN One
    ELSE Round(DMul(AnyProductRounded(term_stats, k - 1, collection_size),
                    Round(DSub(One,
                               Round(DDiv(Round(ToDouble(term_stats[k].frequency)),
                                          Round(ToDouble(collection_size))))))))

AnyRounded(stats) ==
    Round(DMul(Round(ToDouble(stats.collection_size)),
               Round(DSub(One, AnyProductRounded(stats.term_stats,
                                                 Len(stats.term_stats),
                                                 stats.collection_size)))))

\* The fold of all() over the first k terms.
RECURSIVE AllProductRounded(_, _, _)
AllProductRounded(term_stats, k, any) ==
    IF k = 0 THEN One
    ELSE Round(DMul(AllProductRounded(term_stats, k - 1, any),
                    Round(DDiv(Round(ToDouble(term_stats[k].frequency)), any))))

AllFromAnyRounded(stats, any) ==
    IF DEq(any, PosZero) THEN PosZero
    ELSE Round(DMul(any, AllProductRounded(stats.term_stats,
                                           Len(stats.term_stats), any)))

AllRounded(stats) == AllFromAnyRounded(stats, AnyRounded(stats))

---------------------------------------------------------------------------
(* The inputs of the calls. *)

D(i) == ToDouble(i)

\* Term statistics: an absent term, two ordinary terms, a term of a single
\* document (variance 0), a term whose frequency exceeds the collection, and
\* a term whose sum of squares has overflowed (variance +infinity).
AbsentTerm == FS(D(0), D(0), 0)
TermA == FS(D(1), D(1), 1)
TermB == FS(D(2), D(1), 2)
SingleDocTerm == FS(D(3), D(0), 1)
FrequentTerm == FS(D(1), D(1), 3)
OverflownTerm == FS(D(1), PosInf, 1)

\* The shards score_shards is called with.
ShardPool ==
    { QS(<<TermA, TermB>>, 4),
      QS(<<TermB>>, 4),
      QS(<<AbsentTerm, TermB>>, 4),
      QS(<<AbsentTerm, AbsentTerm>>, 4),
      QS(<<FrequentTerm, FrequentTerm>>, 1),
      QS(<<AbsentTerm>>, 0),
      QS(<<OverflownTerm>>, 4) }

\* The global statistics score_shards is called with.
GlobalPool ==
    { QS(<<>>, 4),
      QS(<<TermB, TermB>>, 4),
      QS(<<AbsentTerm, AbsentTerm>>, 4) }

SeqsUpTo(S, n) == UNION {[1..k -> S] : k \in 0..n}

\* The statistics any, all, estimate_cutoff and calculate_cdf are called with.
TermPool == {AbsentTerm, TermA, TermB, SingleDocTerm, FrequentTerm}
CollectionSizes == {0, 1, 4}
StatsPool == {QS(ts, n) : ts \in SeqsUpTo(TermPool, MaxTerms), n \in CollectionSizes}

\* The cutoffs calculate_cdf is called with.
CutoffPool == {NegInf, D(-1), NegZero, PosZero, <<1, 2>>, D(3), PosInf, NaN}

NtopValues == (-1)..MaxNtop

\* What the incomplete gamma function and its inverse may return.
GammaQValues == {D(0), <<1, 2>>, D(1)}
GammaQInvValues == {D(0), D(3)}

\* The statistics fit_distribution is called with: expected values and
\* variances of either sign, zero, below and at epsilon, infinite and NaN.
BelowEpsilon == <<1, 2 * EpsilonDenominator>>
ExpectedValuePool == {NegZero, PosZero, D(1), D(3), D(-1), PosInf, NaN}
VariancePool ==
    {D(-1), NegZero, PosZero, BelowEpsilon, Epsilon, D(1), D(2), PosInf, NaN}
FitPool == {FS(e, v, 1) : e \in ExpectedValuePool, v \in VariancePool}

\* The term statistics the vector overload of fit_distribution is called
\* with; one term has a positive variance below epsilon.
TinyVarianceTerm == FS(D(1), BelowEpsilon, 1)
FitTermPool == TermPool \cup {TinyVarianceTerm}

\* The features from_features is called with.
FeaturePool == {PosZero, NegZero, D(1), D(2), D(-3), <<1, 2>>}

\* Statistics of at least one term whose frequencies are within a positive
\* collection size.
CountedSizes == {1, 3, 5, 7}
CountedTerms(n) == {FS(PosZero, PosZero, f) : f \in 0..n}
CountedPool ==
    UNION {{QS(ts, n) : ts \in SeqsUpTo(CountedTerms(n), MaxTerms) \ {<<>>}} :
           n \in CountedSizes}

\* The statistics written to a file, and the values an uninitialised
\* Feature_Statistics may hold.
RecordPool ==
    { FS(D(3), <<1, 2>>, 2),
      FS(NegZero, PosInf, -1),
      FS(<<-5, 4>>, NaN, 300) }
GarbagePool == {FS(PosZero, PosZero, 0), FS(NaN, D(7), -7)}

---------------------------------------------------------------------------
(* The state: the last call, its arguments and its outcome, the values of   *)
(* the two library functions that the call read, and the bytes of the      *)
(* statistics file.                                                        *)

VARIABLES op, input, output, gamma_q, gamma_q_inv, file

vars == <<op, input, output, gamma_q, gamma_q_inv, file>>

Init ==
    /\ op = "idle"
    /\ input = <<>>
    /\ output = <<>>
    /\ gamma_q = <<>>
    /\ gamma_q_inv = <<>>
    /\ file = <<>>

CallScoreShards ==
    /\ op = "idle"
    /\ \E global_stats \in GlobalPool, ntop \in NtopValues,
          shard_stats \in SeqsUpTo(ShardPool, MaxShards) :
        \E gqi \in [Args(EstimateCutoffSteps(global_stats, ntop)) -> GammaQInvValues] :
        \E gq \in [ScoreCdfArgs(global_stats, shard_stats, ntop, gqi)
                       -> GammaQValues] :
            /\ op' = "score_shards"
            /\ input' = [global_stats |-> global_stats,
                         shard_stats |-> shard_stats, ntop |-> ntop]
            /\ gamma_q_inv' = gqi
            /\ gamma_q' = gq
            /\ output' = ScoreShards(global_stats, shard_stats, ntop, gqi, gq)
    /\ UNCHANGED file

CallAny ==
    /\ op = "idle"
    /\ \E stats \in StatsPool :
        /\ op' = "any"
        /\ input' = [stats |-> stats]
        /\ output' = Return(Any(stats), <<>>)
    /\ UNCHANGED <<gamma_q, gamma_q_inv, file>>

CallAll ==
    /\ op = "idle"
    /\ \E stats \in StatsPool :
        /\ op' = "all"
        /\ input' = [stats |-> stats]
        /\ output' = AllCall(stats)
    /\ UNCHANGED <<gamma_q, gamma_q_inv, file>>

CallEstimateCutoff ==
    /\ op = "idle"
    /\ \E stats \in StatsPool, ntop \in NtopValues :
        \E gqi \in [Args(EstimateCutoffSteps(stats, ntop)) -> GammaQInvValues] :
            /\ op' = "estimate_cutoff"
            /\ input' = [stats |-> stats, ntop |-> ntop]
            /\ gamma_q_inv' = gqi
            /\ output' = EstimateCutoff(stats, ntop, gqi)
    /\ UNCHANGED <<gamma_q, file>>

CallCalculateCdf ==
    /\ op = "idle"
    /\ \E cutoff \in CutoffPool, stats \in StatsPool :
        \E gq \in [Args(CalculateCdfSteps(cutoff, stats)) -> GammaQValues] :
            /\ op' = "calculate_cdf"
            /\ input' = [cutoff |-> cutoff, stats |-> stats]
            /\ gamma_q' = gq
            /\ output' = CalculateCdf(cutoff, stats, gq)
    /\ UNCHANGED <<gamma_q_inv, file>>

CallFitDistribution ==
    /\ op = "idle"
    /\ \E query_term_stats \in FitPool :
        /\ op' = "fit_distribution"
        /\ input' = [query_term_stats |-> query_term_stats]
        /\ output' = FitDistribution(query_term_stats)
    /\ UNCHANGED <<gamma_q, gamma_q_inv, file>>

CallFitDistributionVector ==
    /\ op = "idle"
    /\ \E term_stats \in SeqsUpTo(FitTermPool, MaxTerms) :
        /\ op' = "fit_distribution_vector"
        /\ input' = [term_stats |-> term_stats]
        /\ output' = FitDistributionVector(term_stats)
    /\ UNCHANGED <<gamma_q, gamma_q_inv, file>>

CallFromFeatures ==
    /\ op = "idle"
    /\ \E features \in SeqsUpTo(FeaturePool, MaxFeatures) :
        /\ op' = "from_features"
        /\ input' = [features |-> features]
        /\ output' = FromFeatures(features)
    /\ UNCHANGED <<gamma_q, gamma_q_inv, file>>

\* The writer appends the statistics of one more term to the file.
CallToStream ==
    /\ op \in {"idle", "to_stream"}
    /\ Len(file) < MaxRecords * StructSize
    /\ \E stats \in RecordPool :
        /\ op' = "to_stream"
        /\ input' = [records |-> Append(IF op = "idle" THEN <<>> ELSE input.records,
                                        stats)]
        /\ file' = ToStream(file, stats)
    /\ output' = Return(<<>>, <<>>)
    /\ UNCHANGED <<gamma_q, gamma_q_inv>>

\* read_stats on the file written.
CallReadStats ==
    /\ op = "to_stream"
    /\ \E terms \in SeqsUpTo(0..MaxRecords, MaxRecords + 1), garbage \in GarbagePool :
        /\ op' = "read_stats"
        /\ input' = [records |-> input.records, terms |-> terms]
        /\ output' = Return(ReadStats(terms, file, garbage), <<>>)
    /\ UNCHANGED <<gamma_q, gamma_q_inv, file>>

\* any and all as binary floating-point arithmetic computes them.
CallAnyRounded ==
    /\ op = "idle"
    /\ \E stats \in CountedPool :
        /\ op' = "any_rounded"
        /\ input' = [stats |-> stats]
        /\ output' = Return(AnyRounded(stats), <<>>)
    /\ UNCHANGED <<gamma_q, gamma_q_inv, file>>

CallAllRounded ==
    /\ op = "idle"
    /\ \E stats \in CountedPool :
        /\ op' = "all_rounded"
        /\ input' = [stats |-> stats]
        /\ output' = Return(AllRounded(stats), <<>>)
    /\ UNCHANGED <<gamma_q, gamma_q_inv, file>>

\* The caller is done with the result.
Done ==
    /\ op # "idle"
    /\ op' = "idle"
    /\ input' = <<>>
    /\ output' = <<>>
    /\ gamma_q' = <<>>
    /\ gamma_q_inv' = <<>>
    /\ file' = <<>>

Next ==
    \/ CallAny
    \/ CallAll
    \/ CallEstimateCutoff
    \/ CallCalculateCdf
    \/ CallScoreShards
    \/ CallFitDistribution
    \/ CallFitDistributionVector
    \/ CallFromFeatures
    \/ CallToStream
    \/ CallReadStats
    \/ CallAnyRounded
    \/ CallAllRounded
    \/ Done

Spec == Init /\ [][Next]_vars


---------------------------------------------------------------------------
(* Properties of score_shards *)

\* The call whose outcome the state holds has returned.
Returned(name) == op = name /\ ~output.threw

\* The sequence s with its elements i and i + 1 exchanged.
Exchange(s, i) ==
    [k \in 1..Len(s) |-> IF k = i THEN s[i + 1] ELSE IF k = i + 1 THEN s[i] ELSE s[k]]

\* The locals of the score_shards call the state holds, computed from its
\* arguments and the library values it read.
GlobalCutoff == EstimateCutoff(input.global_stats, input.ntop, gamma_q_inv)
CoefsAt(global_cutoff) ==
    [i \in 1..Len(input.shard_stats) |->
        DMul(CalculateCdf(global_cutoff.ret, input.shard_stats[i], gamma_q).ret,
             All(input.shard_stats[i]))]
ShardCoefs == CoefsAt(GlobalCutoff)
ShardCoef(i) == ShardCoefs[i]
SumOfCoefs(coefs) == AccumulateSum(coefs, Len(coefs))
NormalizationFactor == SumOfCoefs(ShardCoefs)

\* The left-to-right sum of the returned scores.
RECURSIVE SumOfScores(_, _)
SumOfScores(scores, k) ==
    IF k = 0 THEN PosZero ELSE DAdd(SumOfScores(scores, k - 1), scores[k])

\* C1: whenever score_shards returns, it returns one score per shard, in the
\* order of the shards: the output is as long as shard_stats, and the call on
\* shard_stats with two neighbouring shards exchanged returns the same scores
\* with the scores of the two exchanged (every rearrangement of the shards is
\* a sequence of such exchanges).
C1_OneScorePerShardInOrder ==
    Returned("score_shards") =>
        /\ Len(output.ret) = Len(input.shard_stats)
        /\ DOMAIN output.ret = 1..Len(input.shard_stats)
        /\ \A i \in 1..(Len(input.shard_stats) - 1) :
               LET exchanged == ScoreShards(input.global_stats,
                                    Exchange(input.shard_stats, i),
                                    input.ntop, gamma_q_inv, gamma_q)
               IN  /\ ~exchanged.threw
                   /\ exchanged.ret = Exchange(output.ret, i)

\* score_shards has returned three pairwise different scores.
C1_ThreeDifferentScores ==
    /\ Returned("score_shards")
    /\ Len(output.ret) = 3
    /\ ~DEq(output.ret[1], output.ret[2])
    /\ ~DEq(output.ret[1], output.ret[3])
    /\ ~DEq(output.ret[2], output.ret[3])

\* C2: when the normalization factor, the sum over the shards of
\* calculate_cdf(global_cutoff, shard) * all(shard), is greater than 0, the
\* scores score_shards returns sum to ntop and score i is
\* coef i * ntop / normalization factor.
C2_ScoresSumToNtop ==
    Returned("score_shards") =>
        LET coefs == ShardCoefs
            normalization_factor == SumOfCoefs(coefs)
        IN  DGt(normalization_factor, PosZero) =>
                /\ DEq(SumOfScores(output.ret, Len(output.ret)),
                       ToDouble(input.ntop))
                /\ \A i \in 1..Len(input.shard_stats) :
                       output.ret[i] = DDiv(DMul(coefs[i], ToDouble(input.ntop)),
                                            normalization_factor)

\* score_shards has shared an ntop of 2 between two shards of different
\* positive coefficients.
C2_TwoShardsShareNtop ==
    /\ Returned("score_shards")
    /\ input.ntop = 2
    /\ Len(input.shard_stats) = 2
    /\ DGt(ShardCoef(1), PosZero)
    /\ DGt(ShardCoef(2), ShardCoef(1))
    /\ DGt(output.ret[2], output.ret[1])

\* C3: when the normalization factor is not greater than 0, every score
\* score_shards returns is +0.0 and score_shards divides nothing by the
\* normalization factor.
C3_AllZeroWithoutDivision ==
    (Returned("score_shards") /\ ~DGt(NormalizationFactor, PosZero)) =>
        /\ \A i \in 1..Len(output.ret) : output.ret[i] = PosZero
        /\ \A k \in 1..Len(output.trace) :
               output.trace[k] # "/ normalization_factor"

\* score_shards has returned for two shards whose coefficients are both 0.
C3_ZeroFactor ==
    /\ Returned("score_shards")
    /\ Len(input.shard_stats) = 2
    /\ DEq(NormalizationFactor, PosZero)
    /\ output.ret = <<PosZero, PosZero>>

\* Every term of every shard has a frequency between 0 and the collection size
\* of its shard.
ValidShards(shard_stats) ==
    \A i \in 1..Len(shard_stats) :
        \A k \in 1..Len(shard_stats[i].term_stats) :
            /\ 0 <= shard_stats[i].term_stats[k].frequency
            /\ shard_stats[i].term_stats[k].frequency <= shard_stats[i].collection_size

\* Every score score_shards returns is non-negative, whatever the global
\* statistics, the shard statistics and ntop are.
C4_ScoresNonNegative ==
    Returned("score_shards") =>
        \A i \in 1..Len(output.ret) : DLe(PosZero, output.ret[i])

\* C4: every score score_shards returns is non-negative when ntop is at least
\* 0 and every term of every shard has a frequency between 0 and the
\* collection size of its shard.
C4_ScoresNonNegativeOnValidInput ==
    (/\ Returned("score_shards")
     /\ input.ntop >= 0
     /\ ValidShards(input.shard_stats)) =>
        \A i \in 1..Len(output.ret) : DLe(PosZero, output.ret[i])

\* score_shards has returned two positive scores for a non-negative ntop and
\* shards of frequencies within their collection sizes.
C4_PositiveScoreOnValidInput ==
    /\ Returned("score_shards")
    /\ input.ntop >= 0
    /\ ValidShards(input.shard_stats)
    /\ Len(input.shard_stats) = 2
    /\ DGt(output.ret[1], PosZero)
    /\ DGt(output.ret[2], PosZero)

\* Some term of the shard has frequency 0.
HasAbsentTerm(stats) ==
    \E k \in 1..Len(stats.term_stats) : stats.term_stats[k].frequency = 0

\* Some term of the shard has frequency 0 and the all-estimate of the shard
\* is 0.
Degenerate(stats) == HasAbsentTerm(stats) /\ DEq(All(stats), PosZero)

\* C5: a shard with a term of frequency 0 gets score 0 from score_shards,
\* whatever ntop and the other shards are; and a shard of positive
\* coefficient followed by two shards whose all-estimate is 0 because a term
\* has frequency 0 gets ntop, the call returning [ntop, 0, 0].
C5_DegenerateShardScoresZero ==
    Returned("score_shards") =>
        /\ \A i \in 1..Len(input.shard_stats) :
               HasAbsentTerm(input.shard_stats[i]) => DEq(output.ret[i], PosZero)
        /\ (/\ Len(input.shard_stats) = 3
            /\ DGt(ShardCoef(1), PosZero)
            /\ Degenerate(input.shard_stats[2])
            /\ Degenerate(input.shard_stats[3])) =>
               /\ DEq(output.ret[1], ToDouble(input.ntop))
               /\ DEq(output.ret[2], PosZero)
               /\ DEq(output.ret[3], PosZero)

\* score_shards has returned [2, 0, 0] for ntop 2, a shard of positive
\* coefficient, a shard with one term of frequency 0 among others, and a
\* shard of all-zero term statistics.
C5_NtopZeroZero ==
    /\ Returned("score_shards")
    /\ input.ntop = 2
    /\ Len(input.shard_stats) = 3
    /\ DGt(ShardCoef(1), PosZero)
    /\ input.shard_stats[2] = QS(<<AbsentTerm, TermB>>, 4)
    /\ input.shard_stats[3] = QS(<<AbsentTerm, AbsentTerm>>, 4)
    /\ output.ret = <<ToDouble(2), PosZero, PosZero>>

\* C6: two shards of equal statistics get equal scores from score_shards, and
\* n identical shards of positive coefficient get ntop / n each.
C6_EqualShardsEqualScores ==
    Returned("score_shards") =>
        /\ \A i, j \in 1..Len(input.shard_stats) :
               input.shard_stats[i] = input.shard_stats[j] =>
                   output.ret[i] = output.ret[j]
        /\ (/\ Len(input.shard_stats) >= 1
            /\ \A i \in 1..Len(input.shard_stats) :
                   input.shard_stats[i] = input.shard_stats[1]
            /\ DGt(ShardCoef(1), PosZero)) =>
               \A i \in 1..Len(input.shard_stats) :
                   DEq(output.ret[i],
                       DDiv(ToDouble(input.ntop),
                            ToDouble(Len(input.shard_stats))))

\* score_shards has returned 2/3 to each of three identical shards for
\* ntop 2.
C6_ThreeIdenticalShards ==
    /\ Returned("score_shards")
    /\ input.ntop = 2
    /\ Len(input.shard_stats) = 3
    /\ input.shard_stats[2] = input.shard_stats[1]
    /\ input.shard_stats[3] = input.shard_stats[1]
    /\ output.ret = <<Mk(2, 3), Mk(2, 3), Mk(2, 3)>>

---------------------------------------------------------------------------
(* Properties of calculate_cdf, all and estimate_cutoff *)

C8_DegenerateAggregateGivesZero ==
    (/\ op = "calculate_cdf"
     /\ DGt(input.cutoff, PosZero)
     /\ \/ DEq(SumStats(input.stats.term_stats).expected_value, PosZero)
        \/ DEq(SumStats(input.stats.term_stats).variance, PosZero)) =>
        /\ ~output.threw
        /\ output.ret = PosZero
        /\ \A k \in 1..Len(output.trace) : output.trace[k] # "fit_distribution"

\* calculate_cdf has returned 0.0 for a positive cutoff and term statistics
\* of positive expected value and variance 0.
C8_ZeroVariance ==
    /\ op = "calculate_cdf"
    /\ input.cutoff = ToDouble(3)
    /\ input.stats.term_stats = <<SingleDocTerm>>
    /\ ~output.threw
    /\ output.ret = PosZero

\* C9: all returns +0.0 whenever any returns 0.0, and has then divided
\* nothing by any.
C9_AllZeroWhenAnyZero ==
    (op = "all" /\ DEq(Any(input.stats), PosZero)) =>
        /\ ~output.threw
        /\ output.ret = PosZero
        /\ \A k \in 1..Len(output.trace) : output.trace[k] # "frequency / any"

\* all has returned 0.0 for two terms of frequency 0 in a collection of 4
\* documents.
C9_AllFrequenciesZero ==
    /\ op = "all"
    /\ input.stats = QS(<<AbsentTerm, AbsentTerm>>, 4)
    /\ output.ret = PosZero

\* C10: estimate_cutoff returns +0.0 for every ntop when term_stats is empty,
\* and has then neither fitted a distribution nor computed all, so that it
\* does not throw.
C10_EmptyTermStatsGivesZero ==
    (op = "estimate_cutoff" /\ Len(input.stats.term_stats) = 0) =>
        /\ ~output.threw
        /\ output.ret = PosZero
        /\ output.trace = <<>>

\* estimate_cutoff has returned 0.0 for empty term_stats and ntop 0.
C10_EmptyTermStatsNtopZero ==
    /\ op = "estimate_cutoff"
    /\ input.stats.term_stats = <<>>
    /\ input.ntop = 0
    /\ ~output.threw
    /\ output.ret = PosZero

---------------------------------------------------------------------------
(* Properties of fit_distribution *)

\* C11: fit_distribution throws when the expected value of its statistic is
\* 0, and the vector overload throws when the sum of the expected values of
\* its terms is 0 (all-zero terms for one): it returns no distribution then.
C11_ZeroMeanThrows ==
    /\ (/\ op = "fit_distribution"
        /\ DEq(input.query_term_stats.expected_value, PosZero)) => output.threw
    /\ (/\ op = "fit_distribution_vector"
        /\ DEq(SumStats(input.term_stats).expected_value, PosZero)) => output.threw

\* The vector overload of fit_distribution has thrown for two all-zero terms.
C11_AllZeroTermsThrow ==
    /\ op = "fit_distribution_vector"
    /\ input.term_stats = <<AbsentTerm, AbsentTerm>>
    /\ output.threw

---------------------------------------------------------------------------
(* Properties of estimate_cutoff *)

\* C12: estimate_cutoff throws when term_stats is not empty and all(stats)
\* is 0, instead of dividing ntop by all and returning a cutoff.
C12_ZeroAllThrows ==
    (/\ op = "estimate_cutoff"
     /\ Len(input.stats.term_stats) > 0
     /\ DEq(All(input.stats), PosZero)) => output.threw

\* estimate_cutoff has divided a positive ntop by an all-estimate of 0 and
\* returned the cutoff 0.0.
C12_ZeroAllReturnsZero ==
    /\ op = "estimate_cutoff"
    /\ input.ntop > 0
    /\ Len(input.stats.term_stats) > 0
    /\ DEq(All(input.stats), PosZero)
    /\ ~output.threw
    /\ output.ret = PosZero
    /\ \E k \in 1..Len(output.trace) : output.trace[k] = "ntop / all"

---------------------------------------------------------------------------
(* Properties of Feature_Statistics *)

\* The sum of the values and of their squares, from the last value to the
\* first.
RECURSIVE SumFrom(_, _)
SumFrom(values, k) ==
    IF k > Len(values) THEN PosZero
    ELSE DAdd(values[k], SumFrom(values, k + 1))

RECURSIVE SumOfSquaresFrom(_, _)
SumOfSquaresFrom(values, k) ==
    IF k > Len(values) THEN PosZero
    ELSE DAdd(DMul(values[k], values[k]), SumOfSquaresFrom(values, k + 1))

\* C13: from_features returns the number of values as frequency, their sum
\* divided by their number as expected_value, and their population variance
\* (the mean of the squares minus the square of the mean: the squared
\* deviations divided by the count, not by count - 1) as variance; the result
\* is the same when two neighbouring values are exchanged; and for no values
\* it returns {0, 0, 0} and divides nothing.
C13_FromFeaturesMoments ==
    op = "from_features" =>
        LET features == input.features
            count == Len(features)
            stats == output.ret
        IN  /\ ~output.threw
            /\ stats.frequency = count
            /\ count = 0 =>
                   /\ stats = FS(PosZero, PosZero, 0)
                   /\ output.trace = <<>>
            /\ count > 0 =>
                   /\ DEq(stats.expected_value,
                          DDiv(SumFrom(features, 1), ToDouble(count)))
                   /\ DEq(stats.variance,
                          DSub(DDiv(SumOfSquaresFrom(features, 1), ToDouble(count)),
                               DMul(stats.expected_value, stats.expected_value)))
            /\ \A i \in 1..(count - 1) :
                   FromFeatures(Exchange(features, i)).ret = stats

\* from_features has returned mean 0, variance 14/3 and frequency 3 for the
\* values 2, 1, -3.
C13_ThreeValues ==
    /\ op = "from_features"
    /\ input.features = <<D(2), D(1), D(-3)>>
    /\ output.ret = FS(PosZero, Mk(14, 3), 3)


---------------------------------------------------------------------------
(* Properties of to_stream, from_stream and read_stats *)

\* The records written so far and the terms in range of the file.
Written == input.records
InRange(term) == term >= 0 /\ term < Len(Written)

\* C14: every record takes struct_size = 24 bytes of the file; seeking to
\* i * 24 and reading with from_stream gives back record i, field for field,
\* whatever bytes the failed reads would have left; and read_stats returns,
\* for in-range terms, the records of these terms in the order requested.
C14_RoundTripAndRandomAccess ==
    /\ op \in {"to_stream", "read_stats"} =>
        /\ Len(file) = Len(Written) * StructSize
        /\ \A i \in 0..(Len(Written) - 1), garbage \in GarbagePool :
               FromStream(Seekg(IStream(file), i * StructSize), garbage).stats
                   = Written[i + 1]
    /\ (op = "read_stats" /\ \A j \in 1..Len(input.terms) : InRange(input.terms[j])) =>
        /\ Len(output.ret) = Len(input.terms)
        /\ \A j \in 1..Len(input.terms) :
               output.ret[j] = Written[input.terms[j] + 1]

\* Two different records are read back in decreasing and repeated order.
C14_DecreasingAndRepeated ==
    /\ op = "read_stats"
    /\ input.records = <<FS(<<-5, 4>>, NaN, 300), FS(NegZero, PosInf, -1)>>
    /\ input.terms = <<1, 0, 1>>
    /\ output.ret = <<FS(NegZero, PosInf, -1), FS(<<-5, 4>>, NaN, 300),
                      FS(NegZero, PosInf, -1)>>


---------------------------------------------------------------------------
(* Properties of any and all *)

\* The product of frequency / denominator over the terms, last term first.
RECURSIVE ProductOfRatios(_, _)
ProductOfRatios(term_stats, denominator) ==
    IF term_stats = <<>> THEN One
    ELSE DMul(DDiv(ToDouble(Head(term_stats).frequency), denominator),
              ProductOfRatios(Tail(term_stats), denominator))

SingleTerm(stats) == Len(stats.term_stats) = 1

\* all is any times the product of frequency / any whenever any is not 0.
AllIsSelfNormalized ==
    op = "all" =>
        (~DEq(Any(input.stats), PosZero) =>
            output.ret = DMul(Any(input.stats),
                              ProductOfRatios(input.stats.term_stats, Any(input.stats))))

\* C15 as stated: all is any times the product of frequency / any whenever
\* any is not 0, and for a single term all, any and the term's frequency are
\* equal.
C15_AllIsProductOverAny ==
    /\ AllIsSelfNormalized
    /\ (op = "all" /\ SingleTerm(input.stats)) =>
        /\ DEq(output.ret, Any(input.stats))
        /\ DEq(Any(input.stats), ToDouble(input.stats.term_stats[1].frequency))

\* C15, amended: all is any times the product of frequency / any whenever
\* any is not 0; for a single term in a collection of non-zero size all, any
\* and the term's frequency are equal, and in a collection of size 0 all and
\* any are both NaN.
C15_AllIsProductOverAnyInNonEmptyCollection ==
    /\ AllIsSelfNormalized
    /\ (op = "all" /\ SingleTerm(input.stats) /\ input.stats.collection_size # 0) =>
        /\ DEq(output.ret, Any(input.stats))
        /\ DEq(Any(input.stats), ToDouble(input.stats.term_stats[1].frequency))
    /\ (op = "all" /\ SingleTerm(input.stats) /\ input.stats.collection_size = 0) =>
        /\ IsNaN(output.ret)
        /\ IsNaN(Any(input.stats))

\* Two terms of frequency 2 in a collection of 4: any is 3 and all is
\* 3 * (2/3) * (2/3), not 3 * (2/4) * (2/4).
C15_TwoTermsOverAny ==
    /\ op = "all"
    /\ input.stats = QS(<<TermB, TermB>>, 4)
    /\ Any(input.stats) = D(3)
    /\ output.ret = Mk(4, 3)


\* The product of 1 - frequency / collection_size over the terms, last term
\* first.
RECURSIVE ProductOfComplements(_, _)
ProductOfComplements(term_stats, collection_size) ==
    IF term_stats = <<>> THEN One
    ELSE DMul(DSub(One, DDiv(ToDouble(Head(term_stats).frequency),
                             ToDouble(collection_size))),
              ProductOfComplements(Tail(term_stats), collection_size))

\* C16: any is collection_size * (1 - product over every term of
\* (1 - frequency / collection_size)); it is 0 for empty term_stats; and
\* exchanging two neighbouring terms does not change it.
C16_AnyIsComplementOfProduct ==
    op = "any" =>
        /\ output.ret =
               DMul(ToDouble(input.stats.collection_size),
                    DSub(One, ProductOfComplements(input.stats.term_stats,
                                                   input.stats.collection_size)))
        /\ input.stats.term_stats = <<>> => DEq(output.ret, PosZero)
        /\ \A i \in 1..(Len(input.stats.term_stats) - 1) :
               Any(QS(Exchange(input.stats.term_stats, i),
                      input.stats.collection_size)) = output.ret

\* Frequencies 2 and 1 in a collection of 4: any is 4 * (1 - (1/2) * (3/4)),
\* which neither term alone gives.
C16_TwoDifferentTerms ==
    /\ op = "any"
    /\ input.stats = QS(<<TermB, TermA>>, 4)
    /\ output.ret = Mk(5, 2)


---------------------------------------------------------------------------
(* Properties of fit_distribution *)

\* The component-wise sum of the terms, last term first.
RECURSIVE ComponentSum(_)
ComponentSum(term_stats) ==
    IF term_stats = <<>> THEN FS(PosZero, PosZero, 0)
    ELSE FS(DAdd(Head(term_stats).expected_value,
                 ComponentSum(Tail(term_stats)).expected_value),
            DAdd(Head(term_stats).variance,
                 ComponentSum(Tail(term_stats)).variance),
            Head(term_stats).frequency + ComponentSum(Tail(term_stats)).frequency)

\* The sequence s with e inserted after its first i elements.
InsertAt(s, i, e) == SubSeq(s, 1, i) \o <<e>> \o SubSeq(s, i + 1, Len(s))

\* The vector overload gives what the single overload gives for the sum of
\* the terms, whatever their order and however many {0,0,0} terms are among
\* them.
FitsTheSum ==
    op = "fit_distribution_vector" =>
        /\ output = FitDistribution(ComponentSum(input.term_stats))
        /\ \A i \in 1..(Len(input.term_stats) - 1) :
               FitDistributionVector(Exchange(input.term_stats, i)) = output
        /\ \A i \in 0..Len(input.term_stats) :
               FitDistributionVector(InsertAt(input.term_stats, i, AbsentTerm)) = output

\* The shape and scale of the distribution fitted, if any, are
\* expected_value^2 / variance and variance / expected_value.
ShapeAndScaleFrom(expected_value, variance) ==
    (op = "fit_distribution_vector" /\ ~output.threw) =>
        /\ output.shape = DDiv(DMul(expected_value, expected_value), variance)
        /\ output.scale = DDiv(variance, expected_value)

\* C17 as stated: the vector overload fits the sum of the terms, with
\* shape = (sum of expected_value)^2 / (sum of variance) and
\* scale = (sum of variance) / (sum of expected_value).
C17_FitsSumWithSummedVariance ==
    /\ FitsTheSum
    /\ ShapeAndScaleFrom(ComponentSum(input.term_stats).expected_value,
                         ComponentSum(input.term_stats).variance)

\* C17, amended: the vector overload fits the sum of the terms, with
\* shape = (sum of expected_value)^2 / v and scale = v / (sum of
\* expected_value), where v is the sum of the variances if that is above
\* epsilon, and epsilon otherwise.
C17_FitsSumWithGuardedVariance ==
    /\ FitsTheSum
    /\ ShapeAndScaleFrom(ComponentSum(input.term_stats).expected_value,
                         IF DGt(ComponentSum(input.term_stats).variance, Epsilon)
                         THEN ComponentSum(input.term_stats).variance
                         ELSE Epsilon)

\* Two terms with means 2 and 1 and variances 1 and 1: shape 9/2, scale 2/3.
C17_TwoTermsFitted ==
    /\ op = "fit_distribution_vector"
    /\ input.term_stats = <<TermB, TermA>>
    /\ ~output.threw
    /\ output.shape = Mk(9, 2)
    /\ output.scale = Mk(2, 3)


\* The distribution fit_distribution returned, if any, was computed with the
\* variance v.
UsesVariance(v) ==
    (op = "fit_distribution" /\ ~output.threw) =>
        /\ output.shape = DDiv(PowTwo(input.query_term_stats.expected_value), v)
        /\ output.scale = DDiv(v, input.query_term_stats.expected_value)

\* C18 as stated: epsilon replaces the variance exactly when variance <= 0,
\* and every variance > 0 is used unchanged.
C18_EpsilonExactlyForNonPositive ==
    op = "fit_distribution" =>
        IF DLe(input.query_term_stats.variance, PosZero)
        THEN UsesVariance(Epsilon)
        ELSE UsesVariance(input.query_term_stats.variance)

\* C18, amended: epsilon replaces every variance that is not greater than
\* epsilon (negative, zero, positive up to epsilon, or NaN), and a variance
\* greater than epsilon is used unchanged.
C18_EpsilonUnlessAboveEpsilon ==
    op = "fit_distribution" =>
        IF DGt(input.query_term_stats.variance, Epsilon)
        THEN UsesVariance(input.query_term_stats.variance)
        ELSE UsesVariance(Epsilon)

\* A variance of epsilon / 2 with mean 1: the shape is 1 / epsilon.
C18_TinyVarianceReplaced ==
    /\ op = "fit_distribution"
    /\ input.query_term_stats = FS(D(1), BelowEpsilon, 1)
    /\ ~output.threw
    /\ output.shape = D(EpsilonDenominator)
    /\ output.scale = Epsilon


---------------------------------------------------------------------------
(* The order of the estimates *)

\* At least one term, a positive collection size, and every frequency within
\* the collection size.
Counted(stats) ==
    /\ Len(stats.term_stats) >= 1
    /\ stats.collection_size > 0
    /\ \A i \in 1..Len(stats.term_stats) :
           /\ 0 <= stats.term_stats[i].frequency
           /\ stats.term_stats[i].frequency <= stats.collection_size

Frequencies(stats) == {stats.term_stats[i].frequency : i \in 1..Len(stats.term_stats)}
MinFrequency(stats) == CHOOSE f \in Frequencies(stats) : \A g \in Frequencies(stats) : f <= g
MaxFrequency(stats) == CHOOSE f \in Frequencies(stats) : \A g \in Frequencies(stats) : g <= f

\* 0 <= all <= min frequency <= max frequency <= any <= collection_size
Ordered(all, any, stats) ==
    /\ DLe(PosZero, all)
    /\ DLe(all, ToDouble(MinFrequency(stats)))
    /\ MinFrequency(stats) <= MaxFrequency(stats)
    /\ DLe(ToDouble(MaxFrequency(stats)), any)
    /\ DLe(any, ToDouble(stats.collection_size))

\* The estimates of the statistics in the state, as rounded arithmetic
\* computes them and as exact arithmetic does.
ComputedAny == IF op = "any_rounded" THEN output.ret ELSE AnyRounded(input.stats)
ComputedAll == IF op = "all_rounded" THEN output.ret ELSE AllRounded(input.stats)
ExactAny == IF op = "any" THEN output.ret ELSE Any(input.stats)
ExactAll == IF op = "all" THEN output.ret ELSE All(input.stats)

\* C19 as stated: for at least one term, a positive collection size and
\* frequencies within it, the estimates that any and all return are ordered
\* 0 <= all <= min frequency <= max frequency <= any <= collection_size.
C19_EstimatesOrdered ==
    (op \in {"any_rounded", "all_rounded"} /\ Counted(input.stats)) =>
        Ordered(ComputedAll, ComputedAny, input.stats)

\* C19, amended: for such statistics the exact values of the two formulas
\* are ordered 0 <= all <= min frequency <= max frequency <= any <=
\* collection_size, and the values computed with rounding satisfy 0 <= all
\* and 0 <= any <= collection_size.
C19_EstimatesOrderedUpToRounding ==
    /\ (op \in {"any", "all"} /\ Counted(input.stats)) =>
        Ordered(ExactAll, ExactAny, input.stats)
    /\ (op \in {"any_rounded", "all_rounded"} /\ Counted(input.stats)) =>
        /\ DLe(PosZero, ComputedAll)
        /\ DLe(PosZero, ComputedAny)
        /\ DLe(ComputedAny, ToDouble(input.stats.collection_size))

\* One term of frequency 1 in a collection of 3: any is computed as
\* 1 - epsilon, below the frequency.
C19_AnyBelowFrequency ==
    /\ op = "any_rounded"
    /\ input.stats = QS(<<FS(PosZero, PosZero, 1)>>, 3)
    /\ output.ret = DSub(One, Epsilon)
    /\ Any(input.stats) = One


---------------------------------------------------------------------------
(* Where a failure of score_shards comes from *)

\* The term statistics of the shards.
ShardTerms ==
    UNION {{input.shard_stats[i].term_stats[k] :
                k \in 1..Len(input.shard_stats[i].term_stats)} :
           i \in 1..Len(input.shard_stats)}

NonNegative(stats) ==
    DLe(PosZero, stats.expected_value) /\ DLe(PosZero, stats.variance)
NonNegativeFinite(stats) ==
    NonNegative(stats) /\ IsFinite(stats.expected_value) /\ IsFinite(stats.variance)

\* score_shards throws exactly when its call of estimate_cutoff does, and a
\* call that throws returns nothing.
FailsWithEstimateCutoff ==
    /\ output.threw <=> GlobalCutoff.threw
    /\ output.threw => "ret" \notin DOMAIN output

====
